---- MODULE Spec2Model ----
(***************************************************************************)
(* A model of the math-problem synthesis pipeline:                         *)
(*   seed_generator.py   MathProbGenerator, TeacherSynthesizer.call_teacher,*)
(*                       DataValidator.verify_answer, main                 *)
(*   response_parser.py  ResponseParser.parse                              *)
(*   test_pipeline.py    main (strict parse of the teacher's reply)        *)
(*                                                                         *)
(* Text is a sequence of tokens.  A token is either one character (a       *)
(* space, a newline, a colon, a sign, a digit, the letter "x") or one of   *)
(* the three marker words in a given casing: "Problem" is the canonical    *)
(* casing and "problem" stands for any other casing of the same letters    *)
(* (likewise Reasoning/reasoning, Final/final, Answer/answer).  Adjacent   *)
(* word tokens form one word, as adjacent letters do in a Python string.   *)
(***************************************************************************)
EXTENDS Integers, Sequences, FiniteSets, TLC

VARIABLES
    pc,         \* position of the running program
    skeleton,   \* the last skeleton returned by generate_skeleton
    raw,        \* the teacher's raw reply (raw_text / raw_response)
    strict,     \* the strict flag of the last call of parse
    parsed,     \* the value returned by the last call of parse
    expected,   \* the expected_answer of the last call of verify_answer
    verdict,    \* the value returned by the last call of verify_answer
    i,          \* main: the loop index
    dataset     \* main: the accumulation buffer

vars == <<pc, skeleton, raw, strict, parsed, expected, verdict, i, dataset>>

(***************************************************************************)
(* Bounds of the model.                                                    *)
(***************************************************************************)
\* longest reply, in chunks, of the free-form replies
MaxChunks == 3
\* main's NUM_SAMPLES is 10; the model runs the same loop over fewer samples
MaxSamples == 3

(***************************************************************************)
(* Characters and character classes (Python's re, str.strip, int).          *)
(***************************************************************************)
Digit == {"0", "1", "2", "3", "4", "5", "6", "7", "8", "9"}

MarkerWord == {"Problem", "problem", "Reasoning", "reasoning",
               "Final", "final", "Answer", "answer"}

\* \s and str.strip(): whitespace
IsSpace(c) == c \in {" ", "\n"}

\* \d
IsDigit(c) == c \in Digit

\* \w: letters and digits
IsWordChar(c) == c \in MarkerWord \cup Digit \cup {"x"}

\* case folding, as (?i) / re.IGNORECASE compares letters
Fold(c) ==
    CASE c \in {"Problem", "problem"}     -> "problem"
      [] c \in {"Reasoning", "reasoning"} -> "reasoning"
      [] c \in {"Final", "final"}         -> "final"
      [] c \in {"Answer", "answer"}       -> "answer"
      [] OTHER                            -> c

\* \b at the gap in front of position k (1 .. Len(t)+1)
WordBoundary(t, k) ==
    LET before == IF k > 1 THEN IsWordChar(t[k - 1]) ELSE FALSE
        after  == IF k <= Len(t) THEN IsWordChar(t[k]) ELSE FALSE
    IN  before # after

\* greedy \s* from position k: the first position that is not whitespace
RECURSIVE SkipSpace(_, _)
SkipSpace(t, k) ==
    IF k <= Len(t) /\ IsSpace(t[k]) THEN SkipSpace(t, k + 1) ELSE k

\* greedy \d* from position k
RECURSIVE SkipDigits(_, _)
SkipDigits(t, k) ==
    IF k <= Len(t) /\ IsDigit(t[k]) THEN SkipDigits(t, k + 1) ELSE k

\* the last position of t that is not whitespace (0 if none)
RECURSIVE LastNonSpace(_, _)
LastNonSpace(t, k) ==
    IF k >= 1 /\ IsSpace(t[k]) THEN LastNonSpace(t, k - 1) ELSE k

\* str.strip()
Strip(t) == SubSeq(t, SkipSpace(t, 1), LastNonSpace(t, Len(t)))

\* a literal of a pattern, compared at position k; caseless under (?i)
MatchAt(t, k, lit, caseless) ==
    /\ k >= 1
    /\ k + Len(lit) - 1 <= Len(t)
    /\ \A j \in 1..Len(lit) :
          IF caseless THEN Fold(t[k + j - 1]) = Fold(lit[j])
                      ELSE t[k + j - 1] = lit[j]

ProblemMarker     == <<"Problem", ":">>
ReasoningMarker   == <<"Reasoning", ":">>
FinalAnswerMarker == <<"Final", " ", "Answer", ":">>

DigitValue(c) ==
    CASE c = "0" -> 0 [] c = "1" -> 1 [] c = "2" -> 2 [] c = "3" -> 3
      [] c = "4" -> 4 [] c = "5" -> 5 [] c = "6" -> 6 [] c = "7" -> 7
      [] c = "8" -> 8 [] c = "9" -> 9

RECURSIVE DigitsValue(_)
DigitsValue(ds) ==
    IF ds = <<>> THEN 0
    ELSE 10 * DigitsValue(SubSeq(ds, 1, Len(ds) - 1)) + DigitValue(ds[Len(ds)])

\* int(s) for s an optional sign and one or more digits
ToInt(s) ==
    IF s[1] = "-" THEN 0 - DigitsValue(Tail(s))
    ELSE IF s[1] = "+" THEN DigitsValue(Tail(s))
    ELSE DigitsValue(s)

\* \s*([signs]?\d+) from position k: where the number starts and stops
NumberAt(t, k, signs) ==
    LET s == SkipSpace(t, k)
        d == IF s <= Len(t) /\ t[s] \in signs THEN s + 1 ELSE s
        e == SkipDigits(t, d)
    IN  [ok |-> e > d, from |-> s, to |-> e - 1]

(***************************************************************************)
(* response_parser.py: the marker-casing rewrites of parse (lines 48-50).   *)
(***************************************************************************)
\* re.sub(r"(?i)\bfinal\s*answer\b", "Final Answer", text), scanning from k
RECURSIVE SubFinalAnswer(_, _)
SubFinalAnswer(t, k) ==
    IF k > Len(t) THEN <<>>
    ELSE LET a == SkipSpace(t, k + 1)
         IN  IF /\ Fold(t[k]) = "final"
                /\ WordBoundary(t, k)
                /\ a <= Len(t)
                /\ Fold(t[a]) = "answer"
                /\ WordBoundary(t, a + 1)
             THEN <<"Final", " ", "Answer">> \o SubFinalAnswer(t, a + 1)
             ELSE <<t[k]>> \o SubFinalAnswer(t, k + 1)

\* re.sub(r"(?i)\b<word>\b", canon, text) for a one-word pattern
SubWord(t, word, canon) ==
    [k \in 1..Len(t) |->
        IF Fold(t[k]) = word /\ WordBoundary(t, k) /\ WordBoundary(t, k + 1)
        THEN canon ELSE t[k]]

\* the rewrite of "problem" (line 50) left out
NormalizeMarkersMut(t) ==
    SubWord(SubFinalAnswer(t, 1), "reasoning", "Reasoning")

NormalizeMarkers(t) ==
    SubWord(SubWord(SubFinalAnswer(t, 1), "reasoning", "Reasoning"),
            "problem", "Problem")

(***************************************************************************)
(* response_parser.py: _SECTION_RE, matched with re.match (anchored at the  *)
(* start), and _FINAL_ANSWER_RE, used with re.search.                       *)
(***************************************************************************)
\* \s*Final Answer:\s*([+-]?\d+)\s*$ matched from position e
SectionTail(t, e) ==
    LET f == SkipSpace(t, e)
        n == NumberAt(t, f + Len(FinalAnswerMarker), {"+", "-"})
    IN  /\ MatchAt(t, f, FinalAnswerMarker, TRUE)
        /\ n.ok
        /\ SkipSpace(t, n.to + 1) = Len(t) + 1

\* \s*Reasoning:\s*(.*?)\s*Final Answer:\s*([+-]?\d+)\s*$ matched from e
SectionRest(t, e) ==
    LET r == SkipSpace(t, e)
    IN  /\ MatchAt(t, r, ReasoningMarker, TRUE)
        /\ \E e2 \in SkipSpace(t, r + Len(ReasoningMarker))..(Len(t) + 1) :
              SectionTail(t, e2)

Least(S) == CHOOSE m \in S : \A n \in S : m <= n

NoMatch == [matched |-> FALSE, problem |-> <<>>, reasoning |-> <<>>, answer |-> <<>>]

\* _SECTION_RE.match(text): the lazy groups take the shortest span that lets
\* the rest of the pattern match
SECTION_RE(t) ==
    IF ~MatchAt(t, 1, ProblemMarker, TRUE) THEN NoMatch
    ELSE LET s1 == SkipSpace(t, 1 + Len(ProblemMarker))
             E1 == {e \in s1..(Len(t) + 1) : SectionRest(t, e)}
         IN  IF E1 = {} THEN NoMatch
             ELSE LET e1 == Least(E1)
                      r  == SkipSpace(t, e1)
                      s2 == SkipSpace(t, r + Len(ReasoningMarker))
                      e2 == Least({e \in s2..(Len(t) + 1) : SectionTail(t, e)})
                      f  == SkipSpace(t, e2)
                      n  == NumberAt(t, f + Len(FinalAnswerMarker), {"+", "-"})
                  IN  [matched   |-> TRUE,
                       problem   |-> SubSeq(t, s1, e1 - 1),
                       reasoning |-> SubSeq(t, s2, e2 - 1),
                       answer    |-> SubSeq(t, n.from, n.to)]

\* the positions where "Final Answer:\s*([signs]?\d+)" matches, caseless
AnswerMatches(t, signs) ==
    {k \in 1..Len(t) :
        /\ MatchAt(t, k, FinalAnswerMarker, TRUE)
        /\ NumberAt(t, k + Len(FinalAnswerMarker), signs).ok}

\* re.search of "Final Answer:\s*([signs]?\d+)": group 1 of the first match
AnswerSearch(t, signs) ==
    LET M == AnswerMatches(t, signs)
    IN  IF M = {} THEN [found |-> FALSE, answer |-> <<>>]
        ELSE LET n == NumberAt(t, Least(M) + Len(FinalAnswerMarker), signs)
             IN  [found |-> TRUE, answer |-> SubSeq(t, n.from, n.to)]

\* the backup pattern without the "+" sign
FINAL_ANSWER_REMut(t) == AnswerSearch(t, {"-"})

\* _FINAL_ANSWER_RE.search(text)
FINAL_ANSWER_RE(t) == AnswerSearch(t, {"+", "-"})

\* re.split(r"(?i)\b<marker>\s*", text, maxsplit=1)
SplitOnce(t, marker) ==
    LET M == {k \in 1..Len(t) : WordBoundary(t, k) /\ MatchAt(t, k, marker, TRUE)}
    IN  IF M = {} THEN <<t>>
        ELSE LET k == Least(M)
             IN  <<SubSeq(t, 1, k - 1),
                   SubSeq(t, SkipSpace(t, k + Len(marker)), Len(t))>>

(***************************************************************************)
(* response_parser.py: ResponseParser.parse.                                *)
(***************************************************************************)
None == [ok |-> FALSE, problem |-> <<>>, reasoning |-> <<>>, final_answer |-> 0]

Record(problem, reasoning, final_answer) ==
    [ok |-> TRUE, problem |-> problem, reasoning |-> reasoning,
     final_answer |-> final_answer]

\* lines 79-116: the best-effort fallback
BestEffort(text) ==
    LET ans_m == FINAL_ANSWER_RE(text)
        parts == SplitOnce(text, ReasoningMarker)
    IN  IF ~ans_m.found THEN None
        ELSE IF Len(parts) = 2
        THEN LET p2 == SplitOnce(parts[1], ProblemMarker)
             IN  Record(IF Len(p2) = 2 THEN Strip(p2[2]) ELSE <<>>,
                        Strip(SplitOnce(parts[2], FinalAnswerMarker)[1]),
                        ToInt(Strip(ans_m.answer)))
        ELSE Record(Strip(SplitOnce(text, FinalAnswerMarker)[1]),
                    <<>>,
                    ToInt(Strip(ans_m.answer)))

\* "and" for "or" in line 65
MissingSectionMut(problem, reasoning) == problem = <<>> /\ reasoning = <<>>

\* line 65: not problem or not reasoning
MissingSection(problem, reasoning) == problem = <<>> \/ reasoning = <<>>

parse(raw_text, strictFlag) ==
    IF Strip(raw_text) = <<>> THEN None
    ELSE LET text == NormalizeMarkers(Strip(raw_text))
             m    == SECTION_RE(text)
         IN  IF m.matched
             THEN LET problem   == Strip(m.problem)
                      reasoning == Strip(m.reasoning)
                  IN  IF strictFlag /\ MissingSection(problem, reasoning)
                      THEN None
                      ELSE Record(problem, reasoning, ToInt(Strip(m.answer)))
             ELSE IF strictFlag THEN None
             ELSE BestEffort(text)

(***************************************************************************)
(* seed_generator.py: DataValidator.verify_answer.                          *)
(***************************************************************************)
\* pattern = "Final Answer:\s*(-?\d+)", re.search(pattern, response, re.IGNORECASE)
VerifyPattern(response) == AnswerSearch(response, {"-"})

verify_answer(response, expected_answer) ==
    LET match == VerifyPattern(response)
    IN  IF match.found THEN ToInt(match.answer) = expected_answer ELSE FALSE

(***************************************************************************)
(* seed_generator.py: MathProbGenerator.generate_skeleton.                  *)
(***************************************************************************)
\* a slip of precedence in line 31
LinearCMut(a, x, b) == a * (x + b)

\* line 31: c = a * x + b
LinearC(a, x, b) == a * x + b

\* lines 26-36
LinearSkeleton(x, a, b) ==
    [category   |-> "linear_equations",
     variables  |-> [a |-> a, b |-> b, c |-> LinearC(a, x, b)],
     answer     |-> x,
     logic_type |-> "none"]

\* lines 38-54
RatioSkeleton(p, q, k, m) ==
    [category   |-> "ratio_reasoning",
     variables  |-> [a |-> p * k, b |-> q * k, c |-> q * m],
     answer     |-> p * m,
     logic_type |-> "solve_for_x"]

\* a base that is a multiple of 1000 only
BaseValueMut(k) == 1000 * k

\* line 61: a = 10000 * k
BaseValue(k) == 10000 * k

\* lines 65-66: Python's // is floor division; every operand here is positive
PercentageAnswer(a, b, c) ==
    LET step1 == (a * (100 + b)) \div 100
    IN  (step1 * (100 + c)) \div 100

\* lines 56-72
PercentageSkeleton(k, b, c) ==
    [category   |-> "percentage_logic",
     variables  |-> [base_value |-> BaseValue(k), percent_1 |-> b, percent_2 |-> c],
     answer     |-> PercentageAnswer(BaseValue(k), b, c),
     logic_type |-> "none"]

NoSkeleton == [category |-> "none", variables |-> [a |-> 0], answer |-> 0,
               logic_type |-> "none"]

(***************************************************************************)
(* The replies a teacher can give, as far as the model explores them.       *)
(***************************************************************************)
RECURSIVE Concat(_)
Concat(ss) == IF ss = <<>> THEN <<>> ELSE Head(ss) \o Concat(Tail(ss))

\* the pieces of a free-form reply
Chunks ==
    {ProblemMarker, ReasoningMarker, FinalAnswerMarker,
     <<"final", " ", "answer", ":">>, <<"Final", "Answer", ":">>,
     <<" ">>, <<"x">>, <<"3">>, <<"-">>, <<"+">>}

RECURSIVE ChunkTexts(_)
ChunkTexts(n) ==
    IF n = 0 THEN {<<>>}
    ELSE LET shorter == ChunkTexts(n - 1)
         IN  shorter \cup {t \o c : t \in shorter, c \in Chunks}

\* the parts of a reply that follows, or nearly follows, the requested format
Leads      == {<<>>, <<"\n">>, <<"x">>, <<"x", " ">>}
ProblemLabels   == {<<>>, ProblemMarker, <<"problem", ":">>}
ReasoningLabels == {<<>>, ReasoningMarker, <<"reasoning", ":">>}
AnswerLabels    == {<<>>, FinalAnswerMarker, <<"final", " ", "answer", ":">>,
                    <<"Final", "Answer", ":">>}
Sections   == {<<>>, <<"x">>, <<" ", "x", "\n">>, <<" ", "problem", "\n">>,
               <<" ", "Final", " ", "Answer", ":", " ", "7", "\n">>,
               <<" ", "reasoning", ":", " ", "x", "\n">>}
Numbers    == {<<>>, <<" ", "3">>, <<" ", "-", "7">>, <<"+", "5">>}
Trails     == {<<>>, <<"\n">>, <<" ", "x">>}

FormatTexts ==
    {Concat(<<l, pm, p, rm, r, fm, n, tr>>) :
        l \in Leads, pm \in ProblemLabels, p \in Sections,
        rm \in ReasoningLabels, r \in Sections, fm \in AnswerLabels,
        n \in Numbers, tr \in Trails}

Replies == ChunkTexts(MaxChunks) \cup FormatTexts

\* the expected answers verify_answer is called with
Expected == {-7, 3, 5, 7}

(***************************************************************************)
(* Spec: one reply, handed to parse (either mode) or to verify_answer.      *)
(***************************************************************************)
Init ==
    /\ pc = "start"
    /\ raw \in Replies
    /\ skeleton = NoSkeleton
    /\ strict = TRUE
    /\ parsed = None
    /\ expected = 0
    /\ verdict = FALSE
    /\ i = 0
    /\ dataset = <<>>

Parse ==
    /\ pc = "start"
    /\ \E flag \in BOOLEAN :
          /\ strict' = flag
          /\ parsed' = parse(raw, flag)
    /\ pc' = "parsed"
    /\ UNCHANGED <<skeleton, raw, expected, verdict, i, dataset>>

Verify ==
    /\ pc = "start"
    /\ \E e \in Expected :
          /\ expected' = e
          /\ verdict' = verify_answer(raw, e)
    /\ pc' = "verified"
    /\ UNCHANGED <<skeleton, raw, strict, parsed, i, dataset>>

Next == Parse \/ Verify

Spec == Init /\ [][Next]_vars

(***************************************************************************)
(* SpecGen: a call of generate_skeleton (calls share no state).             *)
(***************************************************************************)
InitGen ==
    /\ pc = "idle"
    /\ skeleton = NoSkeleton
    /\ raw = <<>>
    /\ strict = TRUE
    /\ parsed = None
    /\ expected = 0
    /\ verdict = FALSE
    /\ i = 0
    /\ dataset = <<>>

GenLinear ==
    \E x \in 5..50, a \in 2..10, b \in 1..100 :
        skeleton' = LinearSkeleton(x, a, b)

GenRatio ==
    \E p \in 1..9, q \in 1..9, k \in 2..10, m \in 2..10 :
        skeleton' = RatioSkeleton(p, q, k, m)

GenPercentage ==
    \E k \in 1..5, b \in (-50)..50, c \in (-50)..50 :
        skeleton' = PercentageSkeleton(k, b, c)

\* category = random.choice(self.categories), then the branch of that category
generate_skeleton ==
    /\ pc = "idle"
    /\ \/ GenLinear
       \/ GenRatio
       \/ GenPercentage
    /\ pc' = "generated"
    /\ UNCHANGED <<raw, strict, parsed, expected, verdict, i, dataset>>

NextGen == generate_skeleton

SpecGen == InitGen /\ [][NextGen]_vars

(***************************************************************************)
(* SpecMain: seed_generator.py, main (lines 198-237).                       *)
(***************************************************************************)
\* line 200 sets NUM_SAMPLES = 10; the model runs the loop MaxSamples times
NUM_SAMPLES == MaxSamples

\* str(n) for an integer n
RECURSIVE DecimalDigits(_)
DecimalDigits(n) ==
    LET d == CHOOSE c \in Digit : DigitValue(c) = n % 10
    IN  IF n < 10 THEN <<d>> ELSE DecimalDigits(n \div 10) \o <<d>>

Decimal(n) == IF n < 0 THEN <<"-">> \o DecimalDigits(0 - n) ELSE DecimalDigits(n)

\* the skeletons main's call of generate_skeleton draws in the model: the
\* lowest draw of every range, one skeleton per category
SampleSkeletons ==
    {LinearSkeleton(5, 2, 1), RatioSkeleton(1, 1, 2, 2),
     PercentageSkeleton(1, -50, -50)}

\* a reply in the requested format that states the answer n
FormatReply(n) ==
    ProblemMarker \o <<" ", "x", "\n">> \o ReasoningMarker \o <<" ", "x", "\n">>
        \o FinalAnswerMarker \o <<" ">> \o Decimal(n)

\* call_teacher (lines 136-169): the content of the first choice, or "" when
\* the response holds no "choices"
TeacherReplies(sk) ==
    {FormatReply(sk.answer),          \* a valid reply
     FormatReply(sk.answer + 1),      \* a reply with a wrong answer
     <<"x", " ", "x">>,               \* a reply without the markers
     <<>>}                            \* no "choices": call_teacher returns ""

\* line 223: raw_response.split("Reasoning:")[0].strip()
Instruction(raw_response) ==
    LET M == {k \in 1..Len(raw_response) :
                 MatchAt(raw_response, k, ReasoningMarker, FALSE)}
    IN  IF M = {} THEN Strip(raw_response)
        ELSE Strip(SubSeq(raw_response, 1, Least(M) - 1))

\* lines 221-227
Entry(id, raw_response, sk) ==
    [id          |-> id,
     instruction |-> Instruction(raw_response),
     reasoning   |-> raw_response,
     answer      |-> sk.answer,
     metadata    |-> sk]

\* a test that accepts any reply that states some final answer
ValidatedMut(raw_response, sk) == VerifyPattern(raw_response).found

\* line 220, verify_answer(raw_response, skeleton['answer']), tabulated over
\* the skeletons and replies of the model so that each call is evaluated once
Verdicts ==
    [sk \in SampleSkeletons |->
        [r \in TeacherReplies(sk) |-> verify_answer(r, sk.answer)]]

\* line 220: the test that guards the append
Validated(raw_response, sk) == Verdicts[sk][raw_response]

InitMain ==
    /\ pc = "loop"
    /\ skeleton = NoSkeleton
    /\ raw = <<>>
    /\ strict = TRUE
    /\ parsed = None
    /\ expected = 0
    /\ verdict = FALSE
    /\ i = 0
    /\ dataset = <<>>

\* line 213
MainGenerate ==
    /\ pc = "loop"
    /\ i < NUM_SAMPLES
    /\ skeleton' \in SampleSkeletons
    /\ pc' = "call"
    /\ UNCHANGED <<raw, strict, parsed, expected, verdict, i, dataset>>

\* lines 216-217
MainCallTeacher ==
    /\ pc = "call"
    /\ raw' \in TeacherReplies(skeleton)
    /\ pc' = "validate"
    /\ UNCHANGED <<skeleton, strict, parsed, expected, verdict, i, dataset>>

\* lines 220-231, and the step of the for loop
MainValidate ==
    /\ pc = "validate"
    /\ expected' = skeleton.answer
    /\ verdict' = Validated(raw, skeleton)
    /\ dataset' = IF Validated(raw, skeleton)
                  THEN Append(dataset, Entry(i, raw, skeleton))
                  ELSE dataset
    /\ i' = i + 1
    /\ pc' = "loop"
    /\ UNCHANGED <<skeleton, raw, strict, parsed>>

\* lines 233-237: the loop is over, the buffer is written out
MainPersist ==
    /\ pc = "loop"
    /\ i >= NUM_SAMPLES
    /\ pc' = "saved"
    /\ UNCHANGED <<skeleton, raw, strict, parsed, expected, verdict, i, dataset>>

NextMain == MainGenerate \/ MainCallTeacher \/ MainValidate \/ MainPersist

\* main is one sequential thread: it takes its next step whenever it has one
SpecMain == InitMain /\ [][NextMain]_vars /\ WF_vars(NextMain)

(***************************************************************************)
(* The properties.  What the claims call a marker is stated here on the     *)
(* reply itself, not through the parser's own patterns.                     *)
(***************************************************************************)
\* the positions of the colon that ends a "Final Answer" label starting at k:
\* the label as written (any casing, one space) and, if tolerant, also the
\* two words as a whole word with any run of whitespace between them
AnswerLabelEnds(t, k, tolerant) ==
    {c \in (k + 1)..Len(t) :
        /\ t[c] = ":"
        /\ Fold(t[k]) = "final"
        /\ Fold(t[c - 1]) = "answer"
        /\ \/ c = k + 3 /\ t[k + 1] = " "
           \/ tolerant /\ WordBoundary(t, k) /\ SkipSpace(t, k + 1) = c - 1}

\* the positions where a "Final Answer:" label is followed by optional
\* whitespace and a signed integer
AnswerOccurrences(t, tolerant) ==
    {k \in 1..Len(t) :
        \E c \in AnswerLabelEnds(t, k, tolerant) :
            NumberAt(t, c + 1, {"+", "-"}).ok}

\* the integer that follows the first such occurrence
FirstAnswer(t, tolerant) ==
    LET k == Least(AnswerOccurrences(t, tolerant))
        c == CHOOSE c \in AnswerLabelEnds(t, k, tolerant) : TRUE
        n == NumberAt(t, c + 1, {"+", "-"})
    IN  ToInt(SubSeq(t, n.from, n.to))

\* the reply is, end to end, "Problem:" <problem> "Reasoning:" <reasoning>
\* "Final Answer:" <signed integer>; with sections, neither section is blank
InFormat(reply, tolerant, sections) ==
    LET t == Strip(reply)
    IN  /\ MatchAt(t, 1, ProblemMarker, TRUE)
        /\ \E r \in 3..Len(t), f \in 5..Len(t) :
              /\ MatchAt(t, r, ReasoningMarker, TRUE)
              /\ f >= r + 2
              /\ \E c \in AnswerLabelEnds(t, f, tolerant) :
                    LET n == NumberAt(t, c + 1, {"+", "-"})
                    IN  n.ok /\ n.to = Len(t)
              /\ sections => /\ Strip(SubSeq(t, 3, r - 1)) # <<>>
                             /\ Strip(SubSeq(t, r + 2, f - 1)) # <<>>

(***************************************************************************)
(* C1, C2: the skeletons (SpecGen).                                         *)
(***************************************************************************)
\* C1: for a percentage_logic skeleton both floor divisions are exact, so
\* answer * 10000 = base_value * (100 + percent_1) * (100 + percent_2)
C1_PercentageExact ==
    skeleton.category = "percentage_logic" =>
        LET v  == skeleton.variables
            p1 == v.base_value * (100 + v.percent_1)
        IN  /\ p1 % 100 = 0
            /\ ((p1 \div 100) * (100 + v.percent_2)) % 100 = 0
            /\ skeleton.answer * 10000
                  = v.base_value * (100 + v.percent_1) * (100 + v.percent_2)

C1_Witness ==
    /\ skeleton.category = "percentage_logic"
    /\ skeleton.variables = [base_value |-> 10000, percent_1 |-> 33, percent_2 |-> -17]
    /\ skeleton.answer = 11039

\* C2: the answer of a linear skeleton is the exact solution of a*x + b = c
\* (a in 2..10, answer in 5..50), and the answer of a ratio skeleton is the
\* exact solution of a/b = x/c (b > 0): solving leaves no remainder
C2_ExactSolution ==
    LET v == skeleton.variables
    IN  /\ skeleton.category = "linear_equations" =>
              /\ v.a \in 2..10
              /\ skeleton.answer \in 5..50
              /\ v.a * skeleton.answer + v.b = v.c
              /\ (v.c - v.b) % v.a = 0
              /\ (v.c - v.b) \div v.a = skeleton.answer
        /\ skeleton.category = "ratio_reasoning" =>
              /\ v.b > 0
              /\ v.a * v.c = v.b * skeleton.answer
              /\ (v.a * v.c) % v.b = 0
              /\ (v.a * v.c) \div v.b = skeleton.answer

C2_Witness ==
    /\ skeleton.category = "ratio_reasoning"
    /\ skeleton.variables = [a |-> 90, b |-> 70, c |-> 21]
    /\ skeleton.answer = 27

(***************************************************************************)
(* C3 .. C8, C10: the parser and the validator (Spec).                      *)
(***************************************************************************)
\* section texts without any marker, trimmed and not empty
PlainTexts == {<<"x">>, <<"problem">>}

RoundTripText(P, R, n) ==
    ProblemMarker \o <<" ">> \o P \o <<"\n">> \o ReasoningMarker \o <<" ">> \o R
        \o <<"\n">> \o FinalAnswerMarker \o <<" ">> \o Decimal(n)

\* C3: the strict parse of "Problem: P\nReasoning: R\nFinal Answer: n", for
\* marker-free P and R, returns exactly P, R and n
C3_StrictRoundTrip ==
    (pc = "parsed" /\ strict) =>
        \A P \in PlainTexts, R \in PlainTexts, n \in Expected :
            raw = RoundTripText(P, R, n) => parsed = Record(P, R, n)

LenientSalvage(tolerant) ==
    (pc = "parsed" /\ ~strict) =>
        /\ parsed.ok <=> AnswerOccurrences(raw, tolerant) # {}
        /\ parsed.ok => parsed.final_answer \in Int
        /\ (parsed.ok /\ ~InFormat(raw, tolerant, FALSE)) =>
              parsed.final_answer = FirstAnswer(raw, tolerant)

\* C5 as claimed: a lenient parse returns a record iff the reply holds, in any
\* casing, "Final Answer:" followed by optional whitespace and a signed
\* integer; off the full format the answer is the first such integer
C5_LenientSalvage_AsClaimed == LenientSalvage(FALSE)

\* C5 as amended: the same, where the "Final Answer" label may also be written
\* as the two words, as a whole word, with any run of whitespace between them
C5_LenientSalvage == LenientSalvage(TRUE)

\* a lenient parse that salvaged -7 from a reply that is not in the format
C5_Witness ==
    /\ pc = "parsed" /\ ~strict /\ parsed.ok
    /\ ~InFormat(raw, TRUE, FALSE)
    /\ parsed.final_answer = -7

\* C6: verify_answer returns true exactly when the reply holds "Final Answer:"
\* (any casing), optional whitespace and an integer with an optional "+" or
\* "-" sign whose value is the expected answer
C6_Verify ==
    pc = "verified" =>
        verdict = (/\ AnswerOccurrences(raw, FALSE) # {}
                   /\ FirstAnswer(raw, FALSE) = expected)

\* the whole-word occurrences of the marker words, in canonical casing
Canonical(t) ==
    [k \in 1..Len(t) |->
        LET whole == WordBoundary(t, k) /\ WordBoundary(t, k + 1)
        IN  IF Fold(t[k]) = "problem" /\ whole THEN "Problem"
            ELSE IF Fold(t[k]) = "reasoning" /\ whole THEN "Reasoning"
            ELSE IF /\ Fold(t[k]) = "final" /\ WordBoundary(t, k)
                    /\ \E a \in (k + 1)..Len(t) :
                          /\ SkipSpace(t, k + 1) = a
                          /\ Fold(t[a]) = "answer" /\ WordBoundary(t, a + 1)
                 THEN "Final"
            ELSE IF /\ Fold(t[k]) = "answer" /\ WordBoundary(t, k + 1)
                    /\ \E f \in 1..(k - 1) :
                          /\ Fold(t[f]) = "final" /\ WordBoundary(t, f)
                          /\ SkipSpace(t, f + 1) = k
                 THEN "Answer"
            ELSE t[k]]

\* C7: parse returns the same for a reply as for the reply with its marker
\* words in canonical casing, in either mode
C7_CaseTolerance ==
    pc = "parsed" => parsed = parse(Canonical(raw), strict)

\* a successful strict parse of a reply whose marker words are not all in
\* canonical casing
C7_Witness ==
    /\ pc = "parsed" /\ strict /\ parsed.ok
    /\ Canonical(raw) # raw

\* C8: when the strict parse returns final_answer n, verify_answer accepts n
\* and rejects every other expected answer
C8_ParserValidatorAgree ==
    (pc = "parsed" /\ strict /\ parsed.ok) =>
        \A e \in Expected \cup {parsed.final_answer} :
            verify_answer(raw, e) = (e = parsed.final_answer)

\* the whole-word occurrences of a marker
MarkerPositions(t, marker) ==
    {k \in 1..Len(t) : WordBoundary(t, k) /\ MatchAt(t, k, marker, TRUE)}

\* the whole-word occurrences of the "Final Answer:" label
AnswerLabelPositions(t) ==
    {k \in 1..Len(t) : WordBoundary(t, k) /\ AnswerLabelEnds(t, k, TRUE) # {}}

UpToAnswerLabel(t) ==
    IF AnswerLabelPositions(t) = {} THEN t
    ELSE SubSeq(t, 1, Least(AnswerLabelPositions(t)) - 1)

\* C10: on the fallback path, problem and reasoning are the trimmed texts of
\* the reply between its markers, and reasoning holds no "Final Answer:"
C10_LenientSections ==
    (pc = "parsed" /\ ~strict /\ parsed.ok /\ ~InFormat(raw, TRUE, FALSE)) =>
        LET t == Strip(raw)
            R == MarkerPositions(t, ReasoningMarker)
        IN  /\ IF R # {}
               THEN LET r == Least(R)
                        P == {k \in MarkerPositions(t, ProblemMarker) : k < r}
                    IN  /\ parsed.problem =
                              IF P = {} THEN <<>>
                              ELSE Strip(SubSeq(t, Least(P) + 2, r - 1))
                        /\ parsed.reasoning =
                              Strip(UpToAnswerLabel(SubSeq(t, r + 2, Len(t))))
               ELSE /\ parsed.reasoning = <<>>
                    /\ parsed.problem = Strip(UpToAnswerLabel(t))
            /\ AnswerLabelPositions(parsed.reasoning) = {}

(***************************************************************************)
(* C9: the loop of main (SpecMain).                                         *)
(***************************************************************************)
IsPrefix(a, b) == Len(a) <= Len(b) /\ SubSeq(b, 1, Len(a)) = a

\* every record of the buffer passed the validator, carries its skeleton's
\* answer, and the ids are those of samples already visited, in increasing order
BufferSound ==
    /\ i \in 0..NUM_SAMPLES
    /\ pc = "saved" => i = NUM_SAMPLES
    /\ \A k \in 1..Len(dataset) :
          /\ dataset[k].answer = dataset[k].metadata.answer
          /\ verify_answer(dataset[k].reasoning, dataset[k].answer)
          /\ dataset[k].id \in 0..(i - 1)
          /\ k > 1 => dataset[k - 1].id < dataset[k].id

\* the index moves only from i to i + 1; the buffer is append-only; the step
\* that leaves sample i appends a record with id i iff the reply passed
\* verify_answer, and otherwise leaves the buffer alone
LoopStep ==
    /\ i' = i \/ i' = i + 1
    /\ IsPrefix(dataset, dataset')
    /\ i' = i => dataset' = dataset
    /\ i' = i + 1 =>
          IF verify_answer(raw, skeleton.answer)
          THEN /\ Len(dataset') = Len(dataset) + 1
               /\ dataset'[Len(dataset')].id = i
               /\ dataset'[Len(dataset')].metadata = skeleton
          ELSE dataset' = dataset

\* C9: whatever the teacher returns, the loop visits every index 0 ..
\* NUM_SAMPLES-1 once and in order, skips a failed sample and goes on, appends
\* the record of sample i iff it passed verify_answer, never shrinks the
\* buffer, and ends by reaching the persistence step
C9_MainLoop ==
    /\ []BufferSound
    /\ [][LoopStep]_vars
    /\ \A k \in 0..(NUM_SAMPLES - 1) : <>(i = k /\ pc = "validate")
    /\ <>(pc = "saved")

\* the run reached the persistence step after a first sample that failed and a
\* later one that was accepted
C9_Witness ==
    /\ pc = "saved"
    /\ i = NUM_SAMPLES
    /\ Len(dataset) >= 1
    /\ dataset[1].id > 0

====
